---- MODULE Spec2Model ----
(***************************************************************************)
(* A model of bikeshare.py: the interactive session of main (prompt loops, *)
(* load_data, the four aggregators, the raw-data view, the restart prompt) *)
(* and the pure helpers the aggregators are built from.                    *)
(*                                                                         *)
(* Text.  A string the user types, or a name pandas derives, is a record   *)
(* [w, c]: the word in lower case and its letter case ("lower", "Title",   *)
(* "UPPER").  str.lower() and str.title() change c and leave w alone, and  *)
(* two strings are equal only when both agree.  Station names are          *)
(* sequences of character codes, so that '+' is concatenation and sorting  *)
(* is lexicographic.  An empty CSV field is read by pandas as NaN: the     *)
(* empty sequence / empty string stands for NaN in a text column.          *)
(***************************************************************************)
EXTENDS Integers, Sequences, FiniteSets, TLC

VARIABLES
    pc,         \* position of the session in main
    city,       \* get_filters: accepted city, NoStr while not accepted
    month,      \* get_filters: accepted month
    day,        \* get_filters: accepted day
    msg,        \* the last line of interest printed
    file,       \* what pd.read_csv met at the last load
    df,         \* main: the value load_data returned (NoneDF for None)
    ran,        \* the steps of main run in this session iteration, in order
    ride,       \* what display_ride_stats printed
    station,    \* what display_station_stats printed
    duration,   \* what display_trip_duration_stats printed
    user,       \* what display_user_stats printed
    start_idx,  \* display_raw_data: start_idx
    shown,      \* display_raw_data: the pages printed, in order
    log,        \* display_raw_data: pages and answers, in order
    status_line,\* the filter description last printed
    seconds,    \* format_time: the argument, a rational [num, den]
    text        \* format_time: the returned string

vars == <<pc, city, month, day, msg, file, df, ran, ride, station, duration,
          user, start_idx, shown, log, status_line, seconds, text>>

-----------------------------------------------------------------------------
(* Bounds of the model *)

MaxSessionRows == 2     \* rows of a source file in a whole session
MaxLoadRows == 2        \* rows of a source file given to load_data alone
MaxRideRows == 4        \* rows of a table given to display_ride_stats alone
MaxStationRows == 3     \* rows of a table given to display_station_stats alone
MaxUserRows == 3        \* rows of a table given to display_user_stats alone
MaxRawRows == 16        \* rows of a table given to display_raw_data alone
MaxSeconds == 4000      \* |numerator| of a duration given to format_time
MaxDen == 2             \* denominator of a duration given to format_time

-----------------------------------------------------------------------------
(* Text *)

Cases == {"lower", "Title", "UPPER"}
Str(w, c) == [w |-> w, c |-> c]
Literal(w) == Str(w, "lower")
NoStr == Str("", "none")

lower(s) == [s EXCEPT !.c = "lower"]
title(s) == [s EXCEPT !.c = "Title"]

RECURSIVE StrLess(_, _)
StrLess(a, b) ==
    IF b = <<>> THEN FALSE
    ELSE IF a = <<>> THEN TRUE
    ELSE IF Head(a) # Head(b) THEN Head(a) < Head(b)
    ELSE StrLess(Tail(a), Tail(b))

NaN == <<>>
NaNText == ""
NaNYear == 0

RECURSIVE SumOver(_, _)
SumOver(f, S) ==
    IF S = {} THEN 0
    ELSE LET x == CHOOSE y \in S : TRUE IN f[x] + SumOver(f, S \ {x})

MaxOf(S) == CHOOSE x \in S : \A y \in S : y <= x
MinOf(S) == CHOOSE x \in S : \A y \in S : x <= y

RECURSIVE SeqsUpTo(_, _)
SeqsUpTo(S, n) ==
    IF n = 0 THEN {<<>>}
    ELSE LET prev == SeqsUpTo(S, n - 1)
         IN prev \cup {Append(t, x) : t \in {p \in prev : Len(p) = n - 1}, x \in S}

-----------------------------------------------------------------------------
(* Module constants and get_filters *)

CityNames == {"chicago", "new york", "washington"}
CITY_DATA == [c \in {Literal(w) : w \in CityNames} |->
                 CASE c.w = "chicago" -> "chicago.csv"
                   [] c.w = "new york" -> "new_york_city.csv"
                   [] c.w = "washington" -> "washington.csv"]

valid_months_year ==
    <<Literal("all"), Literal("january"), Literal("february"), Literal("march"),
      Literal("april"), Literal("may"), Literal("june"), Literal("july")>>
valid_months == <<Literal("all"), Literal("january"), Literal("february"),
                  Literal("march"), Literal("april"), Literal("may"),
                  Literal("june")>>

valid_days == <<Literal("all"), Literal("monday"), Literal("tuesday"),
                Literal("wednesday"), Literal("thursday"), Literal("friday"),
                Literal("saturday"), Literal("sunday")>>

InList(l, x) == \E i \in 1..Len(l) : l[i] = x

\* What a user may type at the three prompts: every accepted word and one
\* rejected word, in every letter case.
CityInputs == {Str(w, c) : w \in CityNames \cup {"boston"}, c \in Cases}
MonthInputs == {Str(valid_months[i].w, c) : i \in 1..Len(valid_months), c \in Cases}
                 \cup {Str("july", c) : c \in Cases}
DayInputs == {Str(valid_days[i].w, c) : i \in 1..Len(valid_days), c \in Cases}
                 \cup {Str("funday", c) : c \in Cases}

-----------------------------------------------------------------------------
(* Tables *)

Weekdays == {"monday", "tuesday", "wednesday", "thursday", "friday",
             "saturday", "sunday"}

\* A row of a source file.  st is the parsed 'Start Time': its month number,
\* its weekday and its hour.
FileRow(m, d, h, s, e, u, g, b, t) ==
    [st |-> [month |-> m, dow |-> d, hour |-> h], start |-> s, end |-> e,
     utype |-> u, gender |-> g, birth |-> b, dur |-> t]

\* What pd.read_csv meets: no file, a file it cannot parse, or a table with
\* the five columns every city has and those of opt \subseteq OptionalColumns.
MissingFile == [status |-> "missing", opt |-> {}, rows |-> <<>>]
GarbledFile == [status |-> "garbled", opt |-> {}, rows |-> <<>>]
TableFile(opt, rows) == [status |-> "ok", opt |-> opt, rows |-> rows]

BaseColumns == {"Start Time", "Trip Duration", "Start Station", "End Station",
                "User Type"}
OptionalColumns == {"Gender", "Birth Year"}
DerivedColumns == {"month", "day_of_week", "hour"}

NoneDF == [isNone |-> TRUE, columns |-> {}, rows |-> <<>>]
DataFrame(cols, rows) == [isNone |-> FALSE, columns |-> cols, rows |-> rows]

\* pd.read_csv labels the rows 0, 1, 2, ... (a RangeIndex); a column absent
\* from the file holds nothing.
read_csv(f) ==
    [i \in 1..Len(f.rows) |->
        [idx |-> i - 1, st |-> f.rows[i].st, start |-> f.rows[i].start,
         end |-> f.rows[i].end, utype |-> f.rows[i].utype,
         gender |-> IF "Gender" \in f.opt THEN f.rows[i].gender ELSE NaNText,
         birth |-> IF "Birth Year" \in f.opt THEN f.rows[i].birth ELSE NaNYear,
         dur |-> f.rows[i].dur]]

day_name(st) == Str(st.dow, "Title")

\* Lines 144-146: the three derived columns.
Derive(rows) ==
    [i \in 1..Len(rows) |->
        [idx |-> rows[i].idx, st |-> rows[i].st, start |-> rows[i].start,
         end |-> rows[i].end, utype |-> rows[i].utype, gender |-> rows[i].gender,
         birth |-> rows[i].birth, dur |-> rows[i].dur,
         month |-> rows[i].st.month, day_of_week |-> day_name(rows[i].st),
         hour |-> rows[i].st.hour]]

months == <<Literal("january"), Literal("february"), Literal("march"),
            Literal("april"), Literal("may"), Literal("june")>>

\* list.index: the 0-based position of the first occurrence.
index(l, x) == (CHOOSE i \in 1..Len(l) : l[i] = x /\ \A j \in 1..(i - 1) : l[j] # x) - 1

month_num_off(m) == index(months, lower(m))
month_num(m) == index(months, lower(m)) + 1

filter_month(rows, m) ==
    IF m # Literal("all")
    THEN SelectSeq(rows, LAMBDA r : r.month = month_num(m))
    ELSE rows

filter_day(rows, d) ==
    IF d # Literal("all")
    THEN SelectSeq(rows, LAMBDA r : lower(r.day_of_week) = lower(d))
    ELSE rows

\* The exception the try block of load_data raises, "" when it raises none:
\* KeyError for a city outside CITY_DATA, FileNotFoundError from read_csv, a
\* parse error from read_csv or to_datetime, ValueError from months.index.
load_error(c, m, d, f) ==
    IF c \notin DOMAIN CITY_DATA THEN "KeyError"
    ELSE IF f.status = "missing" THEN "FileNotFoundError"
    ELSE IF f.status = "garbled" THEN "ParserError"
    ELSE IF m # Literal("all") /\ ~InList(months, lower(m)) THEN "ValueError"
    ELSE ""

load_data(c, m, d, f) ==
    IF load_error(c, m, d, f) # "" THEN NoneDF
    ELSE DataFrame(BaseColumns \cup f.opt \cup DerivedColumns,
                   filter_day(filter_month(Derive(read_csv(f)), m), d))

load_message(c, m, d, f) ==
    CASE load_error(c, m, d, f) = "" -> "Loading your selected data..."
      [] load_error(c, m, d, f) = "FileNotFoundError" -> "Error loading data"
      [] OTHER -> "An unexpected error occurred"

-----------------------------------------------------------------------------
(* Series *)

\* A column of a frame: its values with their row labels, in row order.
Column(frame, name) ==
    [i \in 1..Len(frame.rows) |-> [idx |-> frame.rows[i].idx, val |-> frame.rows[i][name]]]

dropna(s, nan) == SelectSeq(s, LAMBDA e : e.val # nan)

Values(s) == {s[i].val : i \in 1..Len(s)}
CountOf(s, v) == Cardinality({i \in 1..Len(s) : s[i].val = v})

\* Series.value_counts: how often each value occurs.  The order of values
\* with equal counts rests on the sort pandas happens to use, so the result
\* is kept as the unordered function value -> count.
value_counts(s) == [v \in Values(s) |-> CountOf(s, v)]

Top(vc) == {v \in DOMAIN vc : \A w \in DOMAIN vc : vc[w] <= vc[v]}

RECURSIVE SortedInts(_)
SortedInts(S) ==
    IF S = {} THEN <<>>
    ELSE LET m == MinOf(S) IN <<m>> \o SortedInts(S \ {m})

RECURSIVE SortedStrs(_)
SortedStrs(S) ==
    IF S = {} THEN <<>>
    ELSE LET m == CHOOSE x \in S : \A y \in S : x = y \/ StrLess(x, y)
         IN <<m>> \o SortedStrs(S \ {m})

\* Series.mode: the values of the highest count, sorted.
mode_strs(s) == SortedStrs(Top(value_counts(s)))
mode_ints(s) == SortedInts(Top(value_counts(s)))

-----------------------------------------------------------------------------
(* display_ride_stats *)

\* Series.sort_index on the hourly counts: (hour, count) in ascending hour.
sort_index(vc) ==
    LET keys == SortedInts(DOMAIN vc)
    IN [i \in 1..Len(keys) |-> [key |-> keys[i], n |-> vc[keys[i]]]]

FirstAt(ss, n) == CHOOSE i \in 1..Len(ss) : ss[i].n = n /\ \A j \in 1..(i - 1) : ss[j].n # n
LastAt(ss, n) == CHOOSE i \in 1..Len(ss) : ss[i].n = n /\ \A j \in (i + 1)..Len(ss) : ss[j].n # n

\* Series.idxmax / idxmin: the label of the first occurrence of the extreme.
idxmax_last(ss) == ss[LastAt(ss, MaxOf({ss[i].n : i \in 1..Len(ss)}))].key
idxmax(ss) == ss[FirstAt(ss, MaxOf({ss[i].n : i \in 1..Len(ss)}))].key
idxmin(ss) == ss[FirstAt(ss, MinOf({ss[i].n : i \in 1..Len(ss)}))].key

hourly_rides(frame) == sort_index(value_counts(Column(frame, "hour")))

\* idxmax of an empty series raises ValueError.
ride_raises(frame) == hourly_rides(frame) = <<>>

NoRide == [total |-> 0, busiest |-> 0 - 1, busiest_n |-> 0, quietest |-> 0 - 1, quietest_n |-> 0]

ride_stats(frame) ==
    LET hr == hourly_rides(frame)
        at(h) == (CHOOSE i \in 1..Len(hr) : hr[i].key = h)
    IN [total |-> Len(frame.rows),
        busiest |-> idxmax(hr), busiest_n |-> hr[at(idxmax(hr))].n,
        quietest |-> idxmin(hr), quietest_n |-> hr[at(idxmin(hr))].n]

-----------------------------------------------------------------------------
(* display_station_stats *)

Labels(s) == {s[i].idx : i \in 1..Len(s)}
At(s, l) == (CHOOSE i \in 1..Len(s) : s[i].idx = l)

\* series + ' to ': every value with the text appended.
AddText(s, t) == [i \in 1..Len(s) |-> [idx |-> s[i].idx, val |-> s[i].val \o t]]

\* series + series, paired by position instead of by label.
AddPositional(a, b) ==
    [i \in 1..(IF Len(a) < Len(b) THEN Len(a) ELSE Len(b)) |->
        [idx |-> a[i].idx, val |-> a[i].val \o b[i].val]]
\* series + series: pandas aligns the operands on their row labels; a label
\* that one side lacks yields NaN.
AddSeries(a, b) ==
    LET ls == SortedInts(Labels(a) \cup Labels(b))
    IN [i \in 1..Len(ls) |->
          [idx |-> ls[i],
           val |-> IF ls[i] \in Labels(a) /\ ls[i] \in Labels(b)
                   THEN a[At(a, ls[i])].val \o b[At(b, ls[i])].val
                   ELSE NaN]]

\* ' to '
TO == <<0, 20, 15, 0>>

start_station_counts(frame) == value_counts(dropna(Column(frame, "start"), NaN))
end_station_counts(frame) == value_counts(dropna(Column(frame, "end"), NaN))

route_series(frame) ==
    AddSeries(AddText(dropna(Column(frame, "start"), NaN), TO),
              dropna(Column(frame, "end"), NaN))

\* Series.mode and value_counts both drop NaN.
route_modes(frame) == mode_strs(dropna(route_series(frame), NaN))
popular_route_last(frame) == route_modes(frame)[Len(route_modes(frame))]
popular_route(frame) == route_modes(frame)[1]
route_count(frame) ==
    LET vc == value_counts(dropna(route_series(frame), NaN))
    IN vc[CHOOSE v \in Top(vc) : TRUE]

\* index[0] of an empty value_counts raises IndexError, mode()[0] of an empty
\* mode raises KeyError.
station_raises(frame) ==
    \/ DOMAIN start_station_counts(frame) = {}
    \/ DOMAIN end_station_counts(frame) = {}
    \/ route_modes(frame) = <<>>

NoStation == [start |-> NaN, start_n |-> 0, end |-> NaN, end_n |-> 0,
              route |-> NaN, route_n |-> 0]

-----------------------------------------------------------------------------
(* format_time and display_trip_duration_stats *)

Abs(x) == IF x < 0 THEN 0 - x ELSE x

\* int(): truncation toward zero of the rational num/den.
int(q) == IF q.num >= 0 THEN q.num \div q.den ELSE 0 - ((0 - q.num) \div q.den)

whole_noabs(q) == int(q)
whole(q) == Abs(int(q))

hours(q) == whole(q) \div 3600
minutes(q) == (whole(q) % 3600) \div 60
secs(q) == whole(q) % 60

format_time(q) ==
    ToString(hours(q)) \o "h " \o ToString(minutes(q)) \o "m " \o ToString(secs(q)) \o "s"

RECURSIVE SumDur(_)
SumDur(rows) == IF rows = <<>> THEN 0 ELSE Head(rows).dur + SumDur(Tail(rows))

total_duration(frame) == [num |-> SumDur(frame.rows), den |-> 1]
avg_duration(frame) == [num |-> SumDur(frame.rows), den |-> Len(frame.rows)]

\* The mean of an empty column is NaN, and int(NaN) raises ValueError.
duration_raises(frame) == Len(frame.rows) = 0

NoDuration == [total |-> "", average |-> ""]

-----------------------------------------------------------------------------
(* display_user_stats *)

user_types(frame) == value_counts(dropna(Column(frame, "utype"), NaNText))

subscriber_df(frame) ==
    DataFrame(frame.columns, SelectSeq(frame.rows, LAMBDA r : r.utype = "Subscriber"))

\* value_counts(dropna=True) would leave the NaN category out.
gender_counts_dropna(frame) ==
    value_counts(dropna(Column(subscriber_df(frame), "gender"), NaNText))
\* value_counts(dropna=False): NaN is a category of its own.
gender_counts(frame) == value_counts(Column(subscriber_df(frame), "gender"))

gender_display(g) == IF g = NaNText THEN "Unknown" ELSE g

GenderWarning == "* Subscriber gender data missing/unavailable for your selection"
BirthWarning == "* Subscriber birth year data missing/unavailable for your selection"

\* Lines 363-382: the warning, or one line (category, count) per category.
\* The percentage printed beside each count is not modelled.
gender_section(frame) ==
    IF "Gender" \in frame.columns
    THEN IF DOMAIN gender_counts(frame) = {}
         THEN [warning |-> GenderWarning, lines |-> {}]
         ELSE [warning |-> "",
               lines |-> {[name |-> gender_display(g), n |-> gender_counts(frame)[g]] :
                            g \in DOMAIN gender_counts(frame)}]
    ELSE [warning |-> GenderWarning, lines |-> {}]

subscriber_birth_years(frame) == dropna(Column(subscriber_df(frame), "birth"), NaNYear)

\* Lines 385-401.  The ages printed beside the years rest on the clock and
\* are not modelled.
birth_section(frame) ==
    IF "Birth Year" \in frame.columns
    THEN IF subscriber_birth_years(frame) = <<>>
         THEN [warning |-> BirthWarning, earliest |-> NaNYear, latest |-> NaNYear,
               common |-> NaNYear]
         ELSE [warning |-> "",
               earliest |-> MinOf(Values(subscriber_birth_years(frame))),
               latest |-> MaxOf(Values(subscriber_birth_years(frame))),
               common |-> mode_ints(subscriber_birth_years(frame))[1]]
    ELSE [warning |-> BirthWarning, earliest |-> NaNYear, latest |-> NaNYear,
          common |-> NaNYear]

user_stats(frame) ==
    [types |-> {[name |-> t, n |-> user_types(frame)[t]] : t \in DOMAIN user_types(frame)},
     gender |-> gender_section(frame),
     birth |-> birth_section(frame),
     returned |-> TRUE]

NoUser == [types |-> {}, gender |-> [warning |-> "", lines |-> {}],
           birth |-> [warning |-> "", earliest |-> NaNYear, latest |-> NaNYear,
                      common |-> NaNYear],
           returned |-> FALSE]

-----------------------------------------------------------------------------
(* get_filter_description, display_raw_data *)

All == Str("all", "Title")

get_filter_description(c, m, d) ==
    [city |-> title(c),
     month |-> IF m = Literal("all") THEN All ELSE title(m),
     day |-> IF d = Literal("all") THEN All ELSE title(d)]

NoLine == [city |-> NoStr, month |-> NoStr, day |-> NoStr]

PAGE == 5

Min(a, b) == IF a < b THEN a ELSE b

\* The original columns of a row: the derived ones are not shown.
Printed(r) ==
    [idx |-> r.idx, st |-> r.st, start |-> r.start, end |-> r.end, utype |-> r.utype,
     gender |-> r.gender, birth |-> r.birth, dur |-> r.dur]

next_start_short(i) == i + PAGE - 1
next_start(i) == i + PAGE

chunk_end(frame, i) == Min(i + PAGE, Len(frame.rows))

\* df.iloc[start_idx:chunk_end]: the rows at 0-based positions start_idx ..
\* chunk_end - 1, those the table has.
current_chunk(frame, i) ==
    [k \in 1..(Min(chunk_end(frame, i), Len(frame.rows)) - i) |-> Printed(frame.rows[i + k])]

YesNoInputs == {Str(w, c) : w \in {"yes", "y", "no", "n", "maybe"}, c \in Cases}
IsYes(r) == lower(r) \in {Literal("yes"), Literal("y")}
IsNo(r) == lower(r) \in {Literal("no"), Literal("n")}

-----------------------------------------------------------------------------
(* main: the session *)

filt == <<city, month, day>>
outs == <<ride, station, duration, user>>
raw == <<start_idx, shown, log>>
ft == <<seconds, text>>

\* Lines 71-81: the city prompt.  An input outside CITY_DATA prints the error
\* and the question is asked again.
AskCity ==
    /\ pc = "city"
    /\ \E typed \in CityInputs :
         LET city_input == lower(typed) IN
         IF city_input \in DOMAIN CITY_DATA
         THEN /\ city' = city_input
              /\ msg' = ""
              /\ pc' = "month"
         ELSE /\ msg' = "Error: Invalid city input."
              /\ UNCHANGED <<city, pc>>
    /\ UNCHANGED <<month, day, file, df, ran, outs, raw, status_line, ft>>

\* Lines 86-96: the month prompt.
AskMonth ==
    /\ pc = "month"
    /\ \E typed \in MonthInputs :
         LET month_input == lower(typed) IN
         IF InList(valid_months, month_input)
         THEN /\ month' = month_input
              /\ msg' = ""
              /\ pc' = "day"
         ELSE /\ msg' = "Error: Invalid month option."
              /\ UNCHANGED <<month, pc>>
    /\ UNCHANGED <<city, day, file, df, ran, outs, raw, status_line, ft>>

\* Lines 101-112: the day prompt, and the return of get_filters.
AskDay ==
    /\ pc = "day"
    /\ \E typed \in DayInputs :
         LET day_input == lower(typed) IN
         IF InList(valid_days, day_input)
         THEN /\ day' = day_input
              /\ msg' = ""
              /\ pc' = "load"
         ELSE /\ msg' = "Error: Invalid day input."
              /\ UNCHANGED <<day, pc>>
    /\ UNCHANGED <<city, month, file, df, ran, outs, raw, status_line, ft>>

\* Line 479: the report runs only for a frame.
after_load_always(d) == "header"
after_load(d) == IF ~d.isNone THEN "header" ELSE "restart"

\* Line 477: load_data, reading whatever the city's file holds now.
LoadData(files) ==
    /\ pc = "load"
    /\ \E f \in files :
         /\ file' = f
         /\ df' = load_data(city, month, day, f)
         /\ msg' = load_message(city, month, day, f)
         /\ pc' = after_load(load_data(city, month, day, f))
    /\ ran' = Append(ran, "load")
    /\ UNCHANGED <<filt, outs, raw, status_line, ft>>

\* Line 480: display_header.
Header ==
    /\ pc = "header"
    /\ status_line' = get_filter_description(city, month, day)
    /\ ran' = Append(ran, "header")
    /\ pc' = "ride"
    /\ UNCHANGED <<filt, msg, file, df, outs, raw, ft>>

\* Line 481: display_ride_stats.  An exception it raises is caught nowhere
\* and ends the process.
RideStats ==
    /\ pc = "ride"
    /\ ran' = Append(ran, "ride")
    /\ IF df.isNone \/ ride_raises(df)
       THEN /\ pc' = "crashed"
            /\ UNCHANGED ride
       ELSE /\ ride' = ride_stats(df)
            /\ pc' = "station"
    /\ UNCHANGED <<filt, msg, file, df, station, duration, user, raw, status_line, ft>>

\* Line 482: display_station_stats.  index[0] of value_counts is a value of
\* the highest count; which one among equals rests on pandas' sort.
StationStats ==
    /\ pc = "station"
    /\ ran' = Append(ran, "station")
    /\ IF station_raises(df)
       THEN /\ pc' = "crashed"
            /\ UNCHANGED station
       ELSE /\ \E s \in Top(start_station_counts(df)), e \in Top(end_station_counts(df)) :
                 station' = [start |-> s, start_n |-> start_station_counts(df)[s],
                             end |-> e, end_n |-> end_station_counts(df)[e],
                             route |-> popular_route(df), route_n |-> route_count(df)]
            /\ pc' = "duration"
    /\ UNCHANGED <<filt, msg, file, df, ride, duration, user, raw, status_line, ft>>

\* Line 483: display_trip_duration_stats.
DurationStats ==
    /\ pc = "duration"
    /\ ran' = Append(ran, "duration")
    /\ IF duration_raises(df)
       THEN /\ pc' = "crashed"
            /\ UNCHANGED duration
       ELSE /\ duration' = [total |-> format_time(total_duration(df)),
                            average |-> format_time(avg_duration(df))]
            /\ pc' = "user"
    /\ UNCHANGED <<filt, msg, file, df, ride, station, user, raw, status_line, ft>>

\* Line 484: display_user_stats.
UserStats ==
    /\ pc = "user"
    /\ ran' = Append(ran, "user")
    /\ user' = user_stats(df)
    /\ pc' = "raw_ask"
    /\ UNCHANGED <<filt, msg, file, df, ride, station, duration, raw, status_line, ft>>

\* Lines 418-449: display_raw_data up to the first question.  An answer that
\* is neither yes nor no prints the error and the question is asked again.
RawAsk ==
    /\ pc = "raw_ask"
    /\ status_line' = get_filter_description(city, month, day)
    /\ ran' = IF Len(ran) > 0 /\ ran[Len(ran)] = "raw" THEN ran ELSE Append(ran, "raw")
    /\ \E response \in YesNoInputs :
         IF IsYes(response)
         THEN /\ start_idx' = 0
              /\ log' = Append(log, "view:yes")
              /\ msg' = ""
              /\ pc' = IF 0 < Len(df.rows) THEN "raw_page" ELSE "restart"
         ELSE IF IsNo(response)
         THEN /\ log' = Append(log, "view:no")
              /\ msg' = ""
              /\ pc' = "restart"
              /\ UNCHANGED start_idx
         ELSE /\ msg' = "Error: Invalid input. Please enter yes or no"
              /\ UNCHANGED <<start_idx, log, pc>>
    /\ UNCHANGED <<filt, file, df, outs, shown, ft>>

\* The question asked after every page, rows left or not.
after_page_always(frame, i) == "raw_more"
\* Lines 463 and 452, i being start_idx after the page: the question is asked
\* only while rows remain; otherwise the loop test ends the view.
after_page(frame, i) == IF i < Len(frame.rows) THEN "raw_more" ELSE "restart"

\* Lines 452-464: one pass of the loop body up to the question.
RawPage ==
    /\ pc = "raw_page"
    /\ shown' = Append(shown, current_chunk(df, start_idx))
    /\ log' = Append(log, "page")
    /\ start_idx' = next_start(start_idx)
    /\ pc' = after_page(df, next_start(start_idx))
    /\ UNCHANGED <<filt, msg, file, df, ran, outs, status_line, ft>>

\* Line 463: 'Would you like to see 5 more rows?'
RawMore ==
    /\ pc = "raw_more"
    /\ \E response \in YesNoInputs :
         IF IsYes(response)
         THEN /\ log' = Append(log, "more:yes")
              /\ msg' = ""
              /\ pc' = "raw_page"
         ELSE IF IsNo(response)
         THEN /\ log' = Append(log, "more:no")
              /\ msg' = ""
              /\ pc' = "restart"
         ELSE /\ msg' = "Error: Invalid input. Please enter yes or no"
              /\ UNCHANGED <<log, pc>>
    /\ UNCHANGED <<filt, file, df, ran, outs, start_idx, shown, status_line, ft>>

\* Lines 493-501: the restart prompt.  After 'yes' the loop starts over; what
\* the last iteration left behind is assigned again before it is read.
Restart ==
    /\ pc = "restart"
    /\ \E typed \in YesNoInputs :
         LET restart == lower(typed) IN
         IF restart \notin {Literal("yes"), Literal("no"), Literal("y"), Literal("n")}
         THEN /\ msg' = "Error: Invalid input. Please enter yes or no"
              /\ UNCHANGED <<pc, filt, file, df, ran, outs, raw, status_line>>
         ELSE IF restart \in {Literal("yes"), Literal("y")}
         THEN /\ pc' = "city"
              /\ city' = NoStr /\ month' = NoStr /\ day' = NoStr
              /\ msg' = ""
              /\ file' = MissingFile
              /\ df' = NoneDF
              /\ ran' = <<>>
              /\ ride' = NoRide /\ station' = NoStation
              /\ duration' = NoDuration /\ user' = NoUser
              /\ start_idx' = 0 /\ shown' = <<>> /\ log' = <<>>
              /\ status_line' = NoLine
         ELSE /\ pc' = "exit"
              /\ msg' = ""
              /\ UNCHANGED <<filt, file, df, ran, outs, raw, status_line>>
    /\ UNCHANGED ft

\* format_time on its own.
FormatTime ==
    /\ pc = "format"
    /\ text' = format_time(seconds)
    /\ pc' = "formatted"
    /\ UNCHANGED <<filt, msg, file, df, ran, outs, raw, status_line, seconds>>

-----------------------------------------------------------------------------
(* Inputs *)

A == <<1>>
B == <<2>>

SessionRows ==
    {FileRow(1, "monday", 8, A, B, "Subscriber", "Male", 1980, 3970),
     FileRow(2, "tuesday", 17, NaN, A, "Customer", NaNText, NaNYear, 30)}
\* A file of more rows than one page of the raw-data view.
LongRows ==
    [i \in 1..(PAGE + 1) |->
        FileRow(1, "monday", 8, A, B, "Subscriber", "Male", 1980, 3970)]
SessionFiles ==
    {MissingFile, GarbledFile, TableFile(OptionalColumns, LongRows)}
      \cup {TableFile(opt, rows) : opt \in {{}, OptionalColumns},
                                   rows \in SeqsUpTo(SessionRows, MaxSessionRows)}

LoadRows ==
    {FileRow(m, d, 8, A, B, "Customer", NaNText, NaNYear, 60) :
        m \in {1, 2, 7}, d \in {"monday", "sunday"}}
LoadFiles == {TableFile({}, rows) : rows \in SeqsUpTo(LoadRows, MaxLoadRows)}
MonthArgs == {Str(valid_months[i].w, c) : i \in 1..Len(valid_months), c \in Cases}
DayArgs == {Str(valid_days[i].w, c) : i \in 1..Len(valid_days), c \in Cases}

\* A frame as load_data returns it for an unfiltered selection.
Frame(opt, rows) ==
    load_data(Literal("chicago"), Literal("all"), Literal("all"), TableFile(opt, rows))

RideRows ==
    {FileRow(1, "monday", h, A, B, "Customer", NaNText, NaNYear, 60) : h \in {0, 8, 17, 23}}
RideFrames == {Frame({}, rows) : rows \in SeqsUpTo(RideRows, MaxRideRows)}

StationRows ==
    {FileRow(1, "monday", 8, s, e, "Customer", NaNText, NaNYear, 60) :
        s \in {NaN, A, B}, e \in {NaN, A, B}}
StationFrames == {Frame({}, rows) : rows \in SeqsUpTo(StationRows, MaxStationRows)}

UserRows ==
    {FileRow(1, "monday", 8, A, B, u, g, b, 60) :
        u \in {"Subscriber", "Customer"}, g \in {"Male", "Female", NaNText},
        b \in {NaNYear, 1980}}
UserFrames ==
    {Frame(opt, rows) : opt \in SUBSET OptionalColumns,
                        rows \in SeqsUpTo(UserRows, MaxUserRows)}

RawRow == FileRow(1, "monday", 8, A, B, "Customer", NaNText, NaNYear, 60)
RawFrames == {Frame({}, [i \in 1..n |-> RawRow]) : n \in 0..MaxRawRows}

-----------------------------------------------------------------------------
(* Specifications *)

Zero == [num |-> 0, den |-> 1]

\* A state in which nothing has been printed yet.
Start(p, c, m, d, frame, q) ==
    /\ pc = p
    /\ city = c /\ month = m /\ day = d
    /\ msg = ""
    /\ file = MissingFile
    /\ df = frame
    /\ ran = <<>>
    /\ ride = NoRide /\ station = NoStation /\ duration = NoDuration /\ user = NoUser
    /\ start_idx = 0 /\ shown = <<>> /\ log = <<>>
    /\ status_line = NoLine
    /\ seconds = q
    /\ text = ""

\* The whole session of main.
Init == Start("city", NoStr, NoStr, NoStr, NoneDF, Zero)

Next ==
    \/ AskCity \/ AskMonth \/ AskDay
    \/ LoadData(SessionFiles)
    \/ Header \/ RideStats \/ StationStats \/ DurationStats \/ UserStats
    \/ RawAsk \/ RawPage \/ RawMore
    \/ Restart

Spec == Init /\ [][Next]_vars


Chicago == Literal("chicago")
AllArg == Literal("all")

\* load_data on its own, for every selection in every letter case.
InitLoad == \E m \in MonthArgs, d \in DayArgs : Start("load", Chicago, m, d, NoneDF, Zero)
NextLoad == LoadData(LoadFiles)
SpecLoad == InitLoad /\ [][NextLoad]_vars

\* display_ride_stats on its own.
InitRide == \E f \in RideFrames : Start("ride", Chicago, AllArg, AllArg, f, Zero)
NextRide == RideStats
SpecRide == InitRide /\ [][NextRide]_vars

\* display_station_stats on its own.
InitStation == \E f \in StationFrames : Start("station", Chicago, AllArg, AllArg, f, Zero)
NextStation == StationStats
SpecStation == InitStation /\ [][NextStation]_vars

\* display_user_stats on its own.
InitUser == \E f \in UserFrames : Start("user", Chicago, AllArg, AllArg, f, Zero)
NextUser == UserStats
SpecUser == InitUser /\ [][NextUser]_vars

\* display_raw_data on its own.
InitRaw == \E f \in RawFrames : Start("raw_ask", Chicago, AllArg, AllArg, f, Zero)
NextRaw == RawAsk \/ RawPage \/ RawMore
SpecRaw == InitRaw /\ [][NextRaw]_vars

\* format_time on its own.
InitFormat ==
    \E n \in (0 - MaxSeconds)..MaxSeconds, k \in 1..MaxDen :
        Start("format", NoStr, NoStr, NoStr, NoneDF, [num |-> n, den |-> k])
NextFormat == FormatTime
SpecFormat == InitFormat /\ [][NextFormat]_vars

-----------------------------------------------------------------------------
(* Claims *)

Prompts == {"city", "month", "day"}
AcceptedCities == {Literal(w) : w \in CityNames}
AcceptedMonths == {Literal(w) : w \in {"all", "january", "february", "march", "april",
                                       "may", "june"}}
AcceptedDays == {Literal(w) : w \in {"all"} \cup Weekdays}

\* C1: in every session iteration execution reaches the restart prompt: no
\* error raised by the loader, an aggregator or the raw-data view ends the
\* process before that prompt, whatever the selection, the load outcome and
\* the dataset (a filtered table of zero rows included).
C1_NoFatalError == pc # "crashed"

\* C2: whenever load_data fails (file missing, or any other read or parse
\* error), in that iteration neither the header nor an aggregator nor the
\* raw-data view runs, the load is not run again, and the next interaction
\* is the restart prompt.
C2_FailedLoadSkipsReport ==
    (ran # <<>> /\ file.status # "ok") =>
        /\ df.isNone
        /\ ran = <<"load">>
        /\ pc \in {"restart", "exit"}
        /\ status_line = NoLine
        /\ ride = NoRide /\ station = NoStation
        /\ duration = NoDuration /\ user = NoUser
        /\ shown = <<>> /\ log = <<>>

C2_Witness ==
    /\ pc = "restart"
    /\ ran = <<"load">>
    /\ file.status = "missing"
    /\ msg = "Error loading data"

\* The 1-based number of a month name, whatever its letter case.
MonthNumber(w) ==
    CASE w = "january" -> 1 [] w = "february" -> 2 [] w = "march" -> 3
      [] w = "april" -> 4 [] w = "may" -> 5 [] w = "june" -> 6 [] OTHER -> 0

Loaded == pc # "load"

\* The labels of the frame's rows, in order.
FrameLabels == [k \in 1..Len(df.rows) |-> df.rows[k].idx]

\* Every row of the frame is the source row of its label, with the derived
\* month, weekday and hour of that row.
RowsAreSourceRows ==
    \A k \in 1..Len(df.rows) :
        LET src == file.rows[df.rows[k].idx + 1] IN
        /\ df.rows[k].st = src.st /\ df.rows[k].start = src.start
        /\ df.rows[k].end = src.end /\ df.rows[k].dur = src.dur
        /\ df.rows[k].month = src.st.month
        /\ df.rows[k].day_of_week.w = src.st.dow
        /\ df.rows[k].hour = src.st.hour

\* C3, as stated: for every month and day in any letter case a successful
\* load_data returns exactly the source rows, in source order, whose month
\* number is that of the selected month (unless the month is 'all') and whose
\* weekday is the selected day (unless the day is 'all'); 'all' removes no
\* row.
C3_AnyCaseAll ==
    (Loaded /\ ~df.isNone) =>
        /\ FrameLabels =
             SortedInts({i - 1 : i \in
                 {j \in 1..Len(file.rows) :
                     /\ month.w = "all" \/ file.rows[j].st.month = MonthNumber(month.w)
                     /\ day.w = "all" \/ file.rows[j].st.dow = day.w}})
        /\ RowsAreSourceRows

\* C3, amended: the same, where only the lower-case string 'all' lifts a
\* filter: a day 'All' or 'ALL' is compared with the weekday names as a name
\* is and keeps no row, and a month 'All' or 'ALL' makes the load fail.
C3_LowerCaseAll ==
    Loaded =>
        /\ df.isNone <=> (month.w = "all" /\ month # Literal("all"))
        /\ ~df.isNone =>
            /\ FrameLabels =
                 SortedInts({i - 1 : i \in
                     {j \in 1..Len(file.rows) :
                         /\ month = Literal("all")
                              \/ file.rows[j].st.month = MonthNumber(month.w)
                         /\ day = Literal("all")
                              \/ (day.w # "all" /\ file.rows[j].st.dow = day.w)}})
            /\ RowsAreSourceRows

C3_Witness ==
    /\ Loaded
    /\ month = Str("february", "Title")
    /\ day = Str("sunday", "UPPER")
    /\ Len(file.rows) = 2
    /\ Len(df.rows) = 1
    /\ df.rows[1].idx = 1


Subscribers == {i \in 1..Len(df.rows) : df.rows[i].utype = "Subscriber"}
Category(i) == IF df.rows[i].gender = NaNText THEN "Unknown" ELSE df.rows[i].gender
LineCounts(lines) == SumOver([l \in lines |-> l.n], lines)

\* C4: display_user_stats prints the gender warning exactly when the table
\* has no Gender column or no Subscriber row; otherwise it prints a breakdown
\* over the subscriber rows alone, null gender being the category 'Unknown',
\* whose counts add up to the number of subscriber rows.  Either way it goes
\* on to the birth-year section and returns normally.
C4_GenderWarning ==
    /\ pc \in {"user", "raw_ask"}
    /\ pc = "raw_ask" =>
        /\ user.gender.warning = GenderWarning
             <=> ("Gender" \notin df.columns \/ Subscribers = {})
        /\ user.gender.warning # GenderWarning =>
            /\ user.gender.warning = ""
            /\ user.gender.lines =
                 {[name |-> Category(i),
                   n |-> Cardinality({j \in Subscribers : Category(j) = Category(i)})] :
                      i \in Subscribers}
            /\ LineCounts(user.gender.lines) = Cardinality(Subscribers)
        /\ user.gender.warning = GenderWarning => user.gender.lines = {}
        /\ user.birth.warning = BirthWarning
             <=> \/ "Birth Year" \notin df.columns
                 \/ \A i \in Subscribers : df.rows[i].birth = NaNYear
        /\ user.birth.warning # BirthWarning =>
            /\ user.birth.warning = ""
            /\ \E i \in Subscribers : df.rows[i].birth = user.birth.earliest
        /\ user.returned

C4_Witness ==
    /\ pc = "raw_ask"
    /\ "Gender" \in df.columns
    /\ Len(df.rows) = 2
    /\ Subscribers = {}
    /\ user.gender.warning = GenderWarning
    /\ user.returned

RECURSIVE Flatten(_)
Flatten(pages) == IF pages = <<>> THEN <<>> ELSE Head(pages) \o Flatten(Tail(pages))

\* C5: the k-th page displayed holds exactly rows 5(k-1) .. min(5k, n)-1 of
\* the table of n rows, in table order: every page but the last has 5 rows,
\* no row is displayed twice or skipped, the rows displayed so far are a
\* prefix of the table, a page after the first follows a 'yes' to the
\* question before it, and at most ceil(n/5) pages are displayed.
C5_Pages ==
    LET n == Len(df.rows)
        all == Flatten(shown)
    IN /\ \A k \in 1..Len(shown) :
            /\ 5 * (k - 1) < n
            /\ Len(shown[k]) = Min(5 * k, n) - 5 * (k - 1)
            /\ \A j \in 1..Len(shown[k]) :
                  shown[k][j] = Printed(df.rows[5 * (k - 1) + j])
       /\ \A k \in 1..(Len(shown) - 1) : Len(shown[k]) = 5
       /\ Len(all) <= n
       /\ \A i \in 1..Len(all) : all[i].idx = df.rows[i].idx
       /\ \A i, j \in 1..Len(all) : all[i].idx = all[j].idx => i = j
       /\ 5 * Len(shown) < n + 5
       /\ Cardinality({i \in 1..Len(log) : log[i] = "page"}) = Len(shown)
       /\ \A i \in 1..Len(log) :
            log[i] = "page" =>
                /\ i > 1
                /\ log[i - 1] = (IF i = 2 THEN "view:yes" ELSE "more:yes")
       /\ pc = "restart" /\ log[Len(log)] = "page" => Len(all) = n

C5_Witness ==
    /\ pc = "restart"
    /\ Len(df.rows) = 11
    /\ Len(shown) = 3
    /\ Len(shown[3]) = 1
    /\ shown[3][1].idx = 10

\* C6: get_filters returns only a triple of one of the 3 cities, one of the
\* 7 months and one of the 8 days, each in lower case; an invalid input at a
\* prompt neither ends the program nor changes a value accepted before, the
\* same question is asked again; so load_data is never called with a city
\* outside the file mapping or a month outside its list of 6 names.
C6_ValidFilters ==
    /\ [](/\ city \in AcceptedCities \cup {NoStr}
          /\ month \in AcceptedMonths \cup {NoStr}
          /\ day \in AcceptedDays \cup {NoStr}
          /\ pc \notin Prompts =>
                /\ city \in AcceptedCities
                /\ month \in AcceptedMonths
                /\ day \in AcceptedDays
          /\ pc = "load" =>
                /\ city \in DOMAIN CITY_DATA
                /\ month = Literal("all") \/ InList(months, month))
    /\ [][/\ pc = "city" =>
                \/ pc' = "city" /\ UNCHANGED <<city, month, day>>
                \/ pc' = "month" /\ city' \in AcceptedCities /\ UNCHANGED <<month, day>>
          /\ pc = "month" =>
                \/ pc' = "month" /\ UNCHANGED <<city, month, day>>
                \/ pc' = "day" /\ month' \in AcceptedMonths /\ UNCHANGED <<city, day>>
          /\ pc = "day" =>
                \/ pc' = "day" /\ UNCHANGED <<city, month, day>>
                \/ pc' = "load" /\ day' \in AcceptedDays /\ UNCHANGED <<city, month>>
          /\ pc \notin Prompts /\ pc' \notin Prompts => UNCHANGED <<city, month, day>>]_vars

C6_Witness ==
    /\ pc = "day"
    /\ msg = "Error: Invalid day input."
    /\ city = Literal("new york")
    /\ month = Literal("june")
    /\ day = NoStr

\* C7: for every integer number of seconds x, format_time(x) renders three
\* fields H, M, S, none left out, with H >= 0, 0 <= M < 60, 0 <= S < 60 and
\* 3600 H + 60 M + S = |x|; format_time(-x) = format_time(x); 3970 gives
\* '1h 6m 10s' and 0 gives '0h 0m 0s'.
C7_FormatTime ==
    (pc = "formatted" /\ seconds.den = 1) =>
        LET x == seconds.num IN
        /\ \E H \in 0..(Abs(x) \div 3600), M \in 0..59 :
              LET S == Abs(x) - 3600 * H - 60 * M IN
              /\ 0 <= S /\ S < 60
              /\ text = ToString(H) \o "h " \o ToString(M) \o "m " \o ToString(S) \o "s"
        /\ text = format_time([num |-> 0 - x, den |-> 1])
        /\ x = 3970 => text = "1h 6m 10s"
        /\ x = 0 => text = "0h 0m 0s"

C7_Witness ==
    /\ pc = "formatted"
    /\ seconds = [num |-> 0 - 3970, den |-> 1]
    /\ text = "1h 6m 10s"


HoursOf == {df.rows[i].hour : i \in 1..Len(df.rows)}
RidesAt(h) == Cardinality({i \in 1..Len(df.rows) : df.rows[i].hour = h})

\* The hourly counts {0: 5, 8: 120, 17: 150, 23: 2}.
ExampleCounts == sort_index((0 :> 5) @@ (8 :> 120) @@ (17 :> 150) @@ (23 :> 2))

\* C8: for every non-empty table display_ride_stats reports as busiest the
\* hour of the highest row count and as quietest the hour of the lowest row
\* count among the hours in the table, the lowest hour number among equals;
\* the counts {0: 5, 8: 120, 17: 150, 23: 2} give busiest 17, quietest 23.
C8_BusiestQuietest ==
    /\ (pc = "crashed") <=> (ran # <<>> /\ Len(df.rows) = 0)
    /\ pc = "station" =>
        /\ ride.busiest \in HoursOf
        /\ ride.busiest_n = RidesAt(ride.busiest)
        /\ \A h \in HoursOf :
              /\ RidesAt(h) <= RidesAt(ride.busiest)
              /\ RidesAt(h) = RidesAt(ride.busiest) => ride.busiest <= h
        /\ ride.quietest \in HoursOf
        /\ ride.quietest_n = RidesAt(ride.quietest)
        /\ \A h \in HoursOf :
              /\ RidesAt(ride.quietest) <= RidesAt(h)
              /\ RidesAt(h) = RidesAt(ride.quietest) => ride.quietest <= h
    /\ idxmax(ExampleCounts) = 17
    /\ idxmin(ExampleCounts) = 23

C8_Witness ==
    /\ pc = "station"
    /\ Len(df.rows) = 4
    /\ df.rows[1].hour = 23
    /\ RidesAt(8) = 2 /\ RidesAt(23) = 2
    /\ ride.busiest = 8 /\ ride.quietest = 8

\* The rows both of whose stations are given, and the route of such a row.
Complete == {i \in 1..Len(df.rows) : df.rows[i].start # NaN /\ df.rows[i].end # NaN}
RouteOf(i) == df.rows[i].start \o TO \o df.rows[i].end
RouteRides(r) == Cardinality({i \in Complete : RouteOf(i) = r})
TopRoutes == {RouteOf(i) : i \in {j \in Complete : \A k \in Complete :
                                      RouteRides(RouteOf(k)) <= RouteRides(RouteOf(j))}}
FirstRow(r) == MinOf({i \in Complete : RouteOf(i) = r})

StartRides(s) == Cardinality({i \in 1..Len(df.rows) : df.rows[i].start = s})
EndRides(s) == Cardinality({i \in 1..Len(df.rows) : df.rows[i].end = s})

\* C10: a row with a null start station adds nothing to the start-station
\* counts, a row with a null end station nothing to the end-station counts,
\* and a row with either station null nothing to the route counts: the route
\* reported and its ride count come from the rows with both stations only,
\* each paired with its own end station.
C10_NullStations ==
    /\ NaN \notin DOMAIN start_station_counts(df)
    /\ NaN \notin DOMAIN end_station_counts(df)
    /\ \A s \in DOMAIN start_station_counts(df) : start_station_counts(df)[s] = StartRides(s)
    /\ \A s \in DOMAIN end_station_counts(df) : end_station_counts(df)[s] = EndRides(s)
    /\ LET rs == dropna(route_series(df), NaN)
       IN {<<rs[k].idx, rs[k].val>> : k \in 1..Len(rs)}
            = {<<df.rows[i].idx, RouteOf(i)>> : i \in Complete}
    /\ pc = "duration" =>
        /\ station.start # NaN /\ station.start_n = StartRides(station.start)
        /\ station.end # NaN /\ station.end_n = EndRides(station.end)
        /\ \A i \in 1..Len(df.rows) :
              /\ df.rows[i].start # NaN => StartRides(df.rows[i].start) <= station.start_n
              /\ df.rows[i].end # NaN => EndRides(df.rows[i].end) <= station.end_n
        /\ station.route \in {RouteOf(i) : i \in Complete}
        /\ station.route_n = RouteRides(station.route)
        /\ \A i \in Complete : RouteRides(RouteOf(i)) <= station.route_n

C10_Witness ==
    /\ pc = "duration"
    /\ Len(df.rows) = 3
    /\ df.rows[1].start = NaN /\ df.rows[1].end = A
    /\ df.rows[2].start = A /\ df.rows[2].end = NaN
    /\ df.rows[3].start = B /\ df.rows[3].end = B
    /\ station.route = B \o TO \o B
    /\ station.route_n = 1


MoreAnswers == {"more:yes", "more:no"}

\* The number of the page that entry i of the log stands for.
PageNumber(i) == Cardinality({j \in 1..i : log[j] = "page"})

\* Page i of the log is followed by the question: it has been answered, or it
\* is on the screen now.
Asked(i) ==
    \/ i < Len(log) /\ log[i + 1] \in MoreAnswers
    \/ i = Len(log) /\ pc = "raw_more"

\* C11, as stated: after each page displayed in the raw-data view, the page
\* that shows the last rows of the table included, the user is asked whether
\* to continue before the view ends.
C11_AskedAfterEveryPage ==
    \A i \in 1..Len(log) : log[i] = "page" => Asked(i)

\* C11, amended: the user is asked whether to continue after each page that
\* leaves rows of the table undisplayed; after the page that shows the last
\* rows the view ends without a question.
C11_AskedWhileRowsRemain ==
    \A i \in 1..Len(log) :
        log[i] = "page" =>
            IF 5 * PageNumber(i) < Len(df.rows)
            THEN Asked(i)
            ELSE i = Len(log) /\ pc = "restart"

C11_Witness ==
    /\ pc = "restart"
    /\ Len(df.rows) = 10
    /\ log = <<"view:yes", "page", "more:yes", "page">>
    /\ Len(shown) = 2

====
